---- MODULE Spec2Model ----
(***************************************************************************)
(* A model of the user-management service: the cookie session and the      *)
(* SessionManager (session_manager.py), the bearer tokens (jwt_utils.py),  *)
(* the credential store and the routes of main.py, oauth.py and            *)
(* profile_routes.py.                                                      *)
(*                                                                         *)
(* The clock `now` counts minutes.  Python dicts are functions whose       *)
(* DOMAIN is the set of keys; Python's None is None in a string field and  *)
(* NoneInt in an integer field (ids, timestamps, the CSRF token).          *)
(***************************************************************************)
EXTENDS Integers, Sequences, FiniteSets, TLC

VARIABLES
    now,          \* datetime.utcnow(), in minutes
    session,      \* request.session: the dict carried by the auth_session cookie
    cookie_time,  \* when the auth_session cookie was last signed (NoneInt: no cookie)
    csrf_seq,     \* how many CSRF tokens secrets.token_urlsafe has produced
    ret,          \* the outcome of the last call: [op, arg, status, value]
    users,        \* the users table: a set of rows [id, username, hashed_password, role]
    profiles,     \* the user_profiles table: a set of rows
    oauth,        \* oauth.py's `oauth` is configured (not None)
    bearer,       \* the token the client presents in its Authorization header
    issued,       \* [username, role, at] of the token in bearer while the client
                  \* has not altered it, else EmptyDict (ghost)
    given,        \* the user_data of the last create_user_session (ghost)
    touched,      \* update_session has overwritten a key of the record since the
                  \* last create_user_session (ghost)
    signed_up,    \* the signups that succeeded: [username, password, role,
                  \* user_id] (ghost)
    logged_out,   \* clear_session was called for a logout and no session was
                  \* created since (ghost)
    pending,      \* the profile creates that found no profile and have not
                  \* committed yet: [route, user_id, fields]
    redis,        \* middlewares.r and the server behind it: [connected, data],
                  \* data[key] = [value, ttl] with ttl in seconds
    recent,       \* per key, the ages in seconds of the requests passed to
                  \* call_next less than WINDOW seconds ago (ghost)
    waiting,      \* the requests between r.get and pipe.execute:
                  \* [worker, ip, path, current, login_data]
    racing        \* the signups and callbacks that found no user and have not
                  \* committed yet: [client, route, user, session]

vars == <<now, session, cookie_time, csrf_seq, ret, users, profiles, oauth,
          bearer, issued, given, touched, signed_up, logged_out, pending,
          redis, recent, waiting, racing>>

\* The rate limiter's counters and the requests inside it
limiter == <<redis, recent, waiting>>

\* The credential store, the OAuth configuration, the requests in flight
store == <<users, profiles, oauth, pending, limiter, racing>>

\* What only signup and the logins and logouts write
history == <<signed_up, logged_out>>

---------------------------------------------------------------------------
(* Values *)

None == "<None>"
NoneInt == -1
EmptyDict == [k \in {} |-> None]
NoUser == EmptyDict

\* dict.get(k, default)
Get(d, k, default) == IF k \in DOMAIN d THEN d[k] ELSE default

\* dict.update(u), and d[k] = v as the one-key case
DictUpdate(d, u) ==
    [k \in DOMAIN d \cup DOMAIN u |-> IF k \in DOMAIN u THEN u[k] ELSE d[k]]

\* bool(request.session.get("authenticated"))
IsAuthenticated(s) == Get(s, "authenticated", FALSE) = TRUE

---------------------------------------------------------------------------
(* Bounds and program constants *)

MaxDays == 2            \* the clock stops MaxDays days after the start
MaxSessions == 2        \* create_user_session is called at most this often
max_age_hours == 24     \* _is_session_expired's default
max_age == 86400        \* SessionMiddleware(max_age=86400), seconds

Hours(h) == h * 60
Seconds(s) == s \div 60

\* The clock advances by 12 hours at a time.
SessionSteps == {Hours(12)}

---------------------------------------------------------------------------
(* SessionMiddleware: the session lives in a signed, timestamped cookie.   *)

\* What the middleware puts in request.session at time t: the cookie's dict,
\* or {} once the signature is older than max_age.
LoadSession(s, signed, t) ==
    IF s # EmptyDict /\ t - signed > Seconds(max_age) THEN EmptyDict ELSE s

\* The response re-signs the cookie when the session is non-empty and drops
\* it otherwise.
SignTime(s, t) == IF s = EmptyDict THEN NoneInt ELSE t

---------------------------------------------------------------------------
(* SessionManager *)

generate_csrf_token(n) == n + 1

session_data(user_data, t) ==
    [user_id       |-> Get(user_data, "user_id", NoneInt),
     username      |-> Get(user_data, "username", None),
     email         |-> Get(user_data, "email", None),
     role          |-> Get(user_data, "role", "user"),
     login_time    |-> t,
     last_activity |-> t,
     authenticated |-> TRUE,
     display_name  |-> Get(user_data, "display_name", None),
     google_info   |-> Get(user_data, "google_info", EmptyDict)]

create_user_session(s, user_data, t, n) ==
    DictUpdate(DictUpdate(s, session_data(user_data, t)),
               [csrf_token |-> generate_csrf_token(n)])

is_session_expired(s, t, hours) ==
    LET last_activity == Get(s, "last_activity", NoneInt)
    IN  IF last_activity = NoneInt THEN TRUE
        ELSE t > last_activity + Hours(hours)

\* A clear_session that clears nothing
clear_session_noop(s) == s

\* A clear_session that only takes the flag away
clear_session_flag_only(s) == [k \in DOMAIN s \ {"authenticated"} |-> s[k]]

clear_session(s) == EmptyDict

\* A get_current_user that does not refresh last_activity
get_current_user_no_refresh(s, t) ==
    IF ~IsAuthenticated(s) THEN [out |-> NoUser, session |-> s]
    ELSE [out |-> [user_id      |-> Get(s, "user_id", NoneInt),
                   username     |-> Get(s, "username", None),
                   email        |-> Get(s, "email", None),
                   role         |-> Get(s, "role", None),
                   login_time   |-> Get(s, "login_time", NoneInt),
                   csrf_token   |-> Get(s, "csrf_token", NoneInt),
                   display_name |-> Get(s, "display_name", None),
                   google_info  |-> Get(s, "google_info", EmptyDict)],
          session |-> s]

\* [out |-> the user dict or NoUser, session |-> the session afterwards]
get_current_user(s, t) ==
    IF ~IsAuthenticated(s) THEN [out |-> NoUser, session |-> s]
    ELSE LET s1 == DictUpdate(s, [last_activity |-> t])
         IN  IF is_session_expired(s1, t, max_age_hours)
             THEN [out |-> NoUser, session |-> clear_session(s1)]
             ELSE [out |-> [user_id      |-> Get(s1, "user_id", NoneInt),
                            username     |-> Get(s1, "username", None),
                            email        |-> Get(s1, "email", None),
                            role         |-> Get(s1, "role", None),
                            login_time   |-> Get(s1, "login_time", NoneInt),
                            csrf_token   |-> Get(s1, "csrf_token", NoneInt),
                            display_name |-> Get(s1, "display_name", None),
                            google_info  |-> Get(s1, "google_info", EmptyDict)],
                   session |-> s1]

update_session(s, updates, t) ==
    IF IsAuthenticated(s)
    THEN DictUpdate(DictUpdate(s, updates), [last_activity |-> t])
    ELSE s

\* [status, out, session]: status 401 stands for the HTTPException raised
require_auth(s, t) ==
    LET r == get_current_user(s, t)
    IN  IF r.out = NoUser
        THEN [status |-> 401, out |-> NoUser, session |-> r.session]
        ELSE [status |-> 200, out |-> r.out, session |-> r.session]

require_role(s, required_role, t) ==
    LET r == require_auth(s, t)
    IN  IF r.status # 200 THEN r
        ELSE IF r.out["role"] # required_role
             THEN [status |-> 403, out |-> NoUser, session |-> r.session]
             ELSE r

\* A get_session_info that also hands out the CSRF token
get_session_info_with_token(s) ==
    IF ~IsAuthenticated(s) THEN [status |-> "not_authenticated"]
    ELSE [status        |-> "authenticated",
          username      |-> Get(s, "username", None),
          role          |-> Get(s, "role", None),
          login_time    |-> Get(s, "login_time", NoneInt),
          last_activity |-> Get(s, "last_activity", NoneInt),
          csrf_token    |-> Get(s, "csrf_token", NoneInt),
          session_keys  |-> DOMAIN s]

get_session_info(s) ==
    IF ~IsAuthenticated(s) THEN [status |-> "not_authenticated"]
    ELSE [status        |-> "authenticated",
          username      |-> Get(s, "username", None),
          role          |-> Get(s, "role", None),
          login_time    |-> Get(s, "login_time", NoneInt),
          last_activity |-> Get(s, "last_activity", NoneInt),
          session_keys  |-> DOMAIN s]

\* The keys create_user_session writes
RecordKeys ==
    {"user_id", "username", "email", "role", "login_time", "last_activity",
     "authenticated", "display_name", "google_info", "csrf_token"}

---------------------------------------------------------------------------
(* jwt_utils: bearer tokens *)

SECRET_KEY == "boffins-secret-key"
EXPIRE_MINUTES == 30

\* The HS256 signature of a payload under a key
Sign(key, payload) == [key |-> key, over |-> payload]

\* No Authorization header
NoToken == [payload |-> EmptyDict, sig |-> EmptyDict]

\* jwt.encode(payload, key)
Encode(payload, key) == [payload |-> payload, sig |-> Sign(key, payload)]

\* A create_jwt_token without the role claim (the function's first version)
create_jwt_token_no_role(username, role, t) ==
    Encode([sub |-> username, exp |-> t + EXPIRE_MINUTES], SECRET_KEY)

create_jwt_token(username, role, t) ==
    Encode([sub |-> username, role |-> role, exp |-> t + EXPIRE_MINUTES],
           SECRET_KEY)

\* jwt.decode raises JWTError on a bad signature and on exp < now
DecodeFails(token, key, t) ==
    \/ token.sig # Sign(key, token.payload)
    \/ ("exp" \in DOMAIN token.payload /\ token.payload["exp"] < t)

\* The dict returned, or NoUser for None
verify_jwt_token(token, t) ==
    IF DecodeFails(token, SECRET_KEY, t) THEN NoUser
    ELSE [username |-> Get(token.payload, "sub", None),
          role     |-> Get(token.payload, "role", None)]

---------------------------------------------------------------------------
(* Inputs of the SessionManager calls *)

Roles == {"user", "admin"}

\* user_data as main.login builds it (no display_name, no google_info), as
\* oauth.auth_callback builds it, and without a role.
UserData ==
    { [user_id |-> 1, username |-> "alice", email |-> None, role |-> "user"],
      [user_id |-> 2, username |-> "root@x.io", email |-> "root@x.io",
       role |-> "admin"],
      [user_id |-> 3, username |-> "bob@x.io", email |-> "bob@x.io",
       role |-> "user", display_name |-> "Bob",
       google_info |-> [name |-> "Bob", picture |-> None, google_id |-> "g-1"]],
      [user_id |-> 1, username |-> "alice"] }

\* updates: Dict[str, Any]
Updates ==
    { [theme |-> "dark"],
      [role |-> "admin"],
      [username |-> None],
      [authenticated |-> FALSE] }

---------------------------------------------------------------------------
(* One action per call; each runs inside a request, between the            *)
(* middleware's load of the cookie and its re-signing of it.               *)

Reply(op, arg, status, value) ==
    [op |-> op, arg |-> arg, status |-> status, value |-> value]

Respond(s, r) ==
    /\ session' = s
    /\ cookie_time' = SignTime(s, now)
    /\ ret' = r
    /\ now' = now

CreateUserSession(user_data) ==
    /\ csrf_seq < MaxSessions
    /\ LET s0 == LoadSession(session, cookie_time, now)
       IN  Respond(create_user_session(s0, user_data, now, csrf_seq),
                   Reply("create_user_session", "", 200, NoUser))
    /\ csrf_seq' = csrf_seq + 1
    /\ given' = user_data
    /\ touched' = FALSE
    /\ logged_out' = FALSE
    /\ UNCHANGED <<bearer, issued, store, signed_up>>

GetCurrentUser ==
    /\ LET s0 == LoadSession(session, cookie_time, now)
           r == get_current_user(s0, now)
       IN  Respond(r.session, Reply("get_current_user", "", 200, r.out))
    /\ UNCHANGED <<csrf_seq, given, touched, bearer, issued, store, history>>

UpdateSession(updates) ==
    /\ LET s0 == LoadSession(session, cookie_time, now)
       IN  /\ Respond(update_session(s0, updates, now),
                      Reply("update_session", "", 200, NoUser))
           /\ touched' = (touched \/ (IsAuthenticated(s0)
                                        /\ DOMAIN updates \cap RecordKeys # {}))
    /\ UNCHANGED <<csrf_seq, given, bearer, issued, store, history>>

ClearSession ==
    /\ LET s0 == LoadSession(session, cookie_time, now)
       IN  Respond(clear_session(s0), Reply("clear_session", "", 200, NoUser))
    /\ logged_out' = TRUE
    /\ UNCHANGED <<csrf_seq, given, touched, bearer, issued, store, signed_up>>

RequireAuth ==
    /\ LET s0 == LoadSession(session, cookie_time, now)
           r == require_auth(s0, now)
       IN  Respond(r.session, Reply("require_auth", "", r.status, r.out))
    /\ UNCHANGED <<csrf_seq, given, touched, bearer, issued, store, history>>

RequireRole(required_role) ==
    /\ LET s0 == LoadSession(session, cookie_time, now)
           r == require_role(s0, required_role, now)
       IN  Respond(r.session,
                   Reply("require_role", required_role, r.status, r.out))
    /\ UNCHANGED <<csrf_seq, given, touched, bearer, issued, store, history>>

GetSessionInfo ==
    /\ LET s0 == LoadSession(session, cookie_time, now)
       IN  Respond(s0, Reply("get_session_info", "", 200, get_session_info(s0)))
    /\ UNCHANGED <<csrf_seq, given, touched, bearer, issued, store, history>>

Tick(d, limit) ==
    /\ now + d <= limit
    /\ now' = now + d
    /\ UNCHANGED <<session, cookie_time, csrf_seq, ret, given, touched, bearer, issued,
                   store, history>>

---------------------------------------------------------------------------
(* middlewares.py: the counters of the rate limiter *)

RATE_LIMIT == 5
WINDOW == 60

IPs == {"10.0.0.1", "10.0.0.2"}
ThrottledPaths == {"/login", "/signup", "/login/google"}

\* f"rate:{ip}:{path}"
RateKey(ip, path) == <<ip, path>>
RateKeys == {RateKey(ip, path) : ip \in IPs, path \in ThrottledPaths}

\* A key Redis does not hold: r.get returns None
NoKey == [value |-> 0, ttl |-> -1]

\* redis.ConnectionError at import: r = None
NoRedis == [connected |-> FALSE, data |-> [k \in RateKeys |-> NoKey]]

\* r connected to a server without keys
EmptyRedis == [connected |-> TRUE, data |-> [k \in RateKeys |-> NoKey]]

NoRecent == [k \in RateKeys |-> <<>>]

---------------------------------------------------------------------------
(* The SessionManager under an arbitrary caller *)

Start ==
    /\ now = 0
    /\ session = EmptyDict
    /\ cookie_time = NoneInt
    /\ csrf_seq = 0
    /\ ret = Reply("start", "", 200, NoUser)
    /\ given = EmptyDict
    /\ touched = FALSE
    /\ bearer = NoToken
    /\ issued = EmptyDict
    /\ users = {}
    /\ profiles = {}
    /\ signed_up = {}
    /\ logged_out = FALSE
    /\ pending = {}
    /\ redis = NoRedis
    /\ recent = NoRecent
    /\ waiting = {}
    /\ racing = {}

\* GOOGLE_CLIENT_ID and GOOGLE_CLIENT_SECRET are set, or not
Init == Start /\ oauth \in BOOLEAN

\* The SessionManager and the token functions never look at the OAuth client
InitNoOAuth == Start /\ oauth = FALSE

InitOAuth == Start /\ oauth = TRUE

NextSession ==
    \/ \E user_data \in UserData : CreateUserSession(user_data)
    \/ GetCurrentUser
    \/ \E updates \in Updates : UpdateSession(updates)
    \/ ClearSession
    \/ RequireAuth
    \/ \E role \in Roles : RequireRole(role)
    \/ GetSessionInfo
    \/ \E d \in SessionSteps : Tick(d, Hours(24) * MaxDays)

SpecSession == InitNoOAuth /\ [][NextSession]_vars

---------------------------------------------------------------------------
(* Properties of the SessionManager *)

\* The step is a call of op (every call leaves the clock alone, Tick moves it)
Did(op) == ret'.op = op /\ now' = now

\* The session the next request will see
Current == LoadSession(session, cookie_time, now)

\* now - last_activity, for a session that has a last_activity
Idle(s) == now - Get(s, "last_activity", NoneInt)

\* C1: a get_current_user call made more than 24 hours after the stored
\* last_activity returns no user and leaves the session empty.
C1_IdleReadIsAbsent ==
    [][(Did("get_current_user") /\ IsAuthenticated(session)
            /\ Idle(session) > Hours(max_age_hours))
        => (ret'.value = NoUser /\ session' = EmptyDict)]_vars

\* What get_current_user is to return for the user_data given to
\* create_user_session: the values given, None for an optional field left
\* out, and the role "user" when no role was given.
GivenIdentity ==
    [user_id      |-> Get(given, "user_id", NoneInt),
     username     |-> Get(given, "username", None),
     email        |-> Get(given, "email", None),
     role         |-> Get(given, "role", "user"),
     display_name |-> Get(given, "display_name", None),
     google_info  |-> Get(given, "google_info", EmptyDict)]

IdentityKeys == DOMAIN GivenIdentity

\* C2: a get_current_user call made less than 24 hours after last_activity, on
\* a session as create_user_session left it, returns the identity given to
\* create_user_session, sets last_activity to now and changes nothing else.
C2_ReadReturnsIdentity ==
    [][(Did("get_current_user") /\ IsAuthenticated(session) /\ ~touched
            /\ Idle(session) < Hours(max_age_hours))
        => /\ ret'.value # NoUser
           /\ \A k \in IdentityKeys : ret'.value[k] = GivenIdentity[k]
           /\ ret'.value["login_time"] = session["login_time"]
           /\ ret'.value["csrf_token"] = session["csrf_token"]
           /\ DOMAIN session' = DOMAIN session
           /\ session'["last_activity"] = now
           /\ \A k \in DOMAIN session \ {"last_activity"} :
                  session'[k] = session[k]]_vars

\* C2's case: the session was created, time passed, and a read returned the user
C2_Witness ==
    /\ ret.op = "get_current_user"
    /\ ret.value # NoUser
    /\ ~touched
    /\ session["login_time"] < now
    /\ session["last_activity"] = now

\* C3: right after create_user_session the session is exactly the fresh
\* record: the keys of the record and nothing stored before the call.
C3_CreateReplaces ==
    ret.op = "create_user_session" => DOMAIN session = RecordKeys

\* C4: require_role(r) returns the identity exactly when the session is
\* authenticated, not idle for more than 24 hours and of role r; it is 403
\* exactly when such a session has another role, and 401 otherwise.
C4_RequireRoleExactly ==
    [][Did("require_role")
        => LET s == Current
               valid == IsAuthenticated(s) /\ Idle(s) <= Hours(max_age_hours)
               r == ret'.arg
           IN  /\ (ret'.status = 200) <=> (valid /\ s["role"] = r)
               /\ (ret'.status = 403) <=> (valid /\ s["role"] # r)
               /\ (ret'.status = 401) <=> ~valid
               /\ (ret'.status = 200) => (ret'.value # NoUser
                                           /\ ret'.value["role"] = r)]_vars

Populated(s, k) ==
    /\ k \in DOMAIN s
    /\ IF k \in {"username", "role"} THEN s[k] # None ELSE s[k] # NoneInt

FullyAuthenticated(s) ==
    /\ IsAuthenticated(s)
    /\ \A k \in {"user_id", "username", "role", "login_time", "last_activity",
                 "csrf_token"} : Populated(s, k)

FullyAbsent(s) ==
    /\ "authenticated" \notin DOMAIN s
    /\ DOMAIN s \cap RecordKeys = {}

---------------------------------------------------------------------------
(* Inputs and actions of the token functions *)

MaxOverrun == 2     \* the clock runs this many minutes past EXPIRE_MINUTES

TokenSteps == {1, 10}

TokenNames == {"alice", "bob@x.io"}

\* What a client can make of a token without the key: another role or a later
\* expiry under the old signature, or a payload signed with a key of its own.
Forgeries(token) ==
    { [token EXCEPT !.payload = DictUpdate(token.payload, [role |-> "admin"])],
      [token EXCEPT !.payload = DictUpdate(token.payload,
                                           [exp |-> EXPIRE_MINUTES * 4])],
      Encode([sub |-> "alice", role |-> "admin", exp |-> EXPIRE_MINUTES * 4],
             "guessed-key") }

CreateJwtToken(username, role) ==
    /\ bearer' = create_jwt_token(username, role, now)
    /\ issued' = [username |-> username, role |-> role, at |-> now]
    /\ ret' = Reply("create_jwt_token", "", 200, NoUser)
    /\ UNCHANGED <<now, session, cookie_time, csrf_seq, given, touched, store, history>>

VerifyJwtToken ==
    /\ ret' = Reply("verify_jwt_token", "", 200, verify_jwt_token(bearer, now))
    /\ UNCHANGED <<now, session, cookie_time, csrf_seq, given, touched, bearer,
                   issued, store, history>>

ForgeToken ==
    /\ \E token \in Forgeries(bearer) :
           /\ token # bearer
           /\ bearer' = token
    /\ issued' = EmptyDict
    /\ ret' = Reply("forge_token", "", 200, NoUser)
    /\ UNCHANGED <<now, session, cookie_time, csrf_seq, given, touched, store, history>>

NextToken ==
    \/ \E username \in TokenNames, role \in Roles : CreateJwtToken(username, role)
    \/ VerifyJwtToken
    \/ ForgeToken
    \/ \E d \in TokenSteps : Tick(d, EXPIRE_MINUTES + MaxOverrun)

SpecToken == InitNoOAuth /\ [][NextToken]_vars

\* C7: verify(issue(u, r)) is {username: u, role: r} less than 30 minutes after
\* issuance and None more than 30 minutes after it, however often the token
\* was verified before; verifying leaves the token as it is.
C7_TokenRoundTrip ==
    [][(Did("verify_jwt_token") /\ issued # EmptyDict)
        => /\ (now - issued.at < EXPIRE_MINUTES
                  => ret'.value = [username |-> issued.username,
                                   role |-> issued.role])
           /\ (now - issued.at > EXPIRE_MINUTES => ret'.value = NoUser)
           /\ bearer' = bearer]_vars

\* C7's case: a token was verified with success, and later, past its expiry
C7_Witness ==
    /\ ret.op = "verify_jwt_token"
    /\ ret.value # NoUser
    /\ issued # EmptyDict
    /\ now - issued.at > 0

C7_WitnessExpired ==
    /\ ret.op = "verify_jwt_token"
    /\ ret.value = NoUser
    /\ issued # EmptyDict
    /\ now - issued.at > EXPIRE_MINUTES

---------------------------------------------------------------------------
(* The credential store: models.User, auth_utils, and the queries of the   *)
(* routes.                                                                 *)

NoRow == EmptyDict

\* Column(Integer, primary_key=True): the next id of a table
NextId(rows) ==
    IF rows = {} THEN 1
    ELSE (CHOOSE i \in {r.id : r \in rows} : \A r \in rows : r.id <= i) + 1

\* Query.first(): the row of the lowest id, or None
First(rows) ==
    IF rows = {} THEN NoRow
    ELSE CHOOSE r \in rows : \A q \in rows : r.id <= q.id

\* A lookup that folds case
Lower(name) == IF name = "Alice" THEN "alice" ELSE name
query_user_nocase(table, username) ==
    First({u \in table : Lower(u.username) = Lower(username)})

\* db.query(User).filter(User.username == username).first()
query_user(table, username) == First({u \in table : u.username = username})

\* db.add + db.commit under Column(String, unique=True): the table afterwards,
\* or ok = FALSE for the IntegrityError
insert_user(table, row) ==
    IF \E u \in table : u.username = row.username
    THEN [ok |-> FALSE, table |-> table]
    ELSE [ok |-> TRUE, table |-> table \cup {row}]

\* pwd_context.hash: a bcrypt hash of the password
hash_password(password) == [scheme |-> "bcrypt", secret |-> password]

\* hashed_password="" of an OAuth user
EmptyHash == [scheme |-> "", secret |-> ""]

\* pwd_context.verify: "true", "false", or "raise" (UnknownHashError) for a
\* string that is no bcrypt hash
verify_password(plain, hashed) ==
    IF hashed.scheme # "bcrypt" THEN "raise"
    ELSE IF hashed.secret = plain THEN "true" ELSE "false"

\* "@" in username
HasAt(username) == username \in {"bob@x.io"}

\* POST /signup: [status, table, user_id]
signup(table, user) ==
    IF query_user(table, user.username) # NoRow
    THEN [status |-> 400, table |-> table, user_id |-> NoneInt]
    ELSE LET new_user == [id |-> NextId(table), username |-> user.username,
                          hashed_password |-> hash_password(user.password),
                          role |-> user.role]
             done == insert_user(table, new_user)
         IN  IF ~done.ok
             THEN [status |-> 500, table |-> table, user_id |-> NoneInt]
             ELSE [status |-> 200, table |-> done.table, user_id |-> new_user.id]

\* The check of login and api_login: the user row, or the status of the failure
\* (401 Invalid credentials; 500 when verify_password raises)
check_credentials(table, login_data) ==
    LET user == query_user(table, login_data.username)
    IN  IF user = NoRow THEN [status |-> 401, user |-> NoRow]
        ELSE LET v == verify_password(login_data.password, user.hashed_password)
             IN  IF v = "raise" THEN [status |-> 500, user |-> NoRow]
                 ELSE IF v = "false" THEN [status |-> 401, user |-> NoRow]
                 ELSE [status |-> 200, user |-> user]

\* A session_data that leaves the role to create_user_session's default
login_session_data_no_role(user) ==
    [user_id  |-> user.id,
     username |-> user.username,
     email    |-> IF HasAt(user.username) THEN user.username ELSE None]

\* login's session_data
login_session_data(user) ==
    [user_id  |-> user.id,
     username |-> user.username,
     email    |-> IF HasAt(user.username) THEN user.username ELSE None,
     role     |-> user.role]

---------------------------------------------------------------------------
(* The route guards: FastAPI dependencies over the request, which carries  *)
(* the cookie's session and the Authorization header.                      *)

Request(s, token) == [session |-> s, bearer |-> token]

\* A session guard that also lets a valid bearer token in
get_current_user_session_or_token(request, t) ==
    LET r == require_auth(request.session, t)
        data == verify_jwt_token(request.bearer, t)
    IN  IF r.status = 401 /\ request.bearer # NoToken /\ data # NoUser
        THEN [status |-> 200, out |-> data, session |-> r.session]
        ELSE r

get_current_user_session(request, t) == require_auth(request.session, t)

get_admin_user_session(request, t) == require_role(request.session, "admin", t)

get_optional_user_session(request, t) == get_current_user(request.session, t)

\* jwt_utils.get_current_user behind oauth2_scheme: [status, out]
jwt_get_current_user(request, t) ==
    IF request.bearer = NoToken THEN [status |-> 401, out |-> NoUser]
    ELSE LET data == verify_jwt_token(request.bearer, t)
         IN  IF data = NoUser THEN [status |-> 401, out |-> NoUser]
             ELSE [status |-> 200, out |-> data]

---------------------------------------------------------------------------
(* Profiles: profile_schemas.ProfileCreate and the token API routes *)

\* A validate_bio that asks for fewer than 200 characters
validate_bio_below(v) == v = None \/ v = "" \/ Len(v) < 200

\* validate_phone and validate_bio: the ValueError is a 422
validate_phone(v) == v = None \/ v = "" \/ Len(v) >= 10
validate_bio(v) == v = None \/ v = "" \/ Len(v) <= 200

ProfileValid(profile_data) ==
    /\ validate_phone(Get(profile_data, "phone", None))
    /\ validate_bio(Get(profile_data, "bio", None))

\* db.query(UserProfile).filter(UserProfile.user_id == user_id).first()
query_profile(table, user_id) == First({q \in table : q.user_id = user_id})

\* UserProfile(user_id=..., **profile_data.dict(exclude_unset=True))
UserProfile(table, user_id, fields) ==
    [id         |-> NextId(table),
     user_id    |-> user_id,
     first_name |-> Get(fields, "first_name", None),
     last_name  |-> Get(fields, "last_name", None),
     email      |-> Get(fields, "email", None),
     phone      |-> Get(fields, "phone", None),
     bio        |-> Get(fields, "bio", None)]

\* POST /profile/: [status, table, out]
create_profile_api(request, accounts, table, profile_data, t) ==
    LET current_user == jwt_get_current_user(request, t)
        user == query_user(accounts, current_user.out.username)
    IN  IF current_user.status # 200
        THEN [status |-> 401, table |-> table, out |-> NoRow]
        ELSE IF ~ProfileValid(profile_data)
        THEN [status |-> 422, table |-> table, out |-> NoRow]
        ELSE IF user = NoRow
        THEN [status |-> 404, table |-> table, out |-> NoRow]
        ELSE IF query_profile(table, user.id) # NoRow
        THEN [status |-> 400, table |-> table, out |-> NoRow]
        ELSE LET profile == UserProfile(table, user.id, profile_data)
             IN  [status |-> 200, table |-> table \cup {profile},
                  out |-> profile]

\* GET /profile/me/api: [status, out]
get_my_profile_api(request, accounts, table, t) ==
    LET current_user == jwt_get_current_user(request, t)
        user == query_user(accounts, current_user.out.username)
    IN  IF current_user.status # 200 THEN [status |-> 401, out |-> NoRow]
        ELSE IF user = NoRow THEN [status |-> 404, out |-> NoRow]
        ELSE IF query_profile(table, user.id) = NoRow
        THEN [status |-> 404, out |-> NoRow]
        ELSE [status |-> 200, out |-> query_profile(table, user.id)]

\* db.add + db.commit under user_id unique=True: the table afterwards, or
\* ok = FALSE for the IntegrityError
insert_profile(table, row) ==
    IF \E q \in table : q.user_id = row.user_id
    THEN [ok |-> FALSE, table |-> table]
    ELSE [ok |-> TRUE, table |-> table \cup {row}]

\* phone if phone else None
OrNone(v) == IF v = "" THEN None ELSE v

\* UserProfile(user_id=..., first_name=..., ...) of create_profile_form
FormProfile(table, user_id, fields) ==
    [id         |-> NextId(table),
     user_id    |-> user_id,
     first_name |-> fields.first_name,
     last_name  |-> fields.last_name,
     email      |-> fields.email,
     phone      |-> OrNone(fields.phone),
     bio        |-> OrNone(fields.bio)]

\* templates.TemplateResponse(name, {"profile": profile, ...})
Page(name, profile) == [page |-> name, profile |-> profile]

\* create_profile_form after its existence check: [status, table, out]
commit_profile_form(table, user_id, fields) ==
    LET profile == FormProfile(table, user_id, fields)
        done == insert_profile(table, profile)
    IN  IF done.ok
        THEN [status |-> 200, table |-> done.table,
              out |-> Page("profile_success.html", profile)]
        ELSE [status |-> 200, table |-> table,
              out |-> Page("create_profile.html", NoRow)]

\* POST /profile/create: [status, table, out, session]
create_profile_form(request, table, fields, t) ==
    LET current_user == get_current_user_session(request, t)
        existing_profile == query_profile(table, current_user.out["user_id"])
    IN  IF current_user.status # 200
        THEN [status |-> 401, table |-> table, out |-> NoRow,
              session |-> current_user.session]
        ELSE IF existing_profile # NoRow
        THEN [status |-> 200, table |-> table,
              out |-> Page("my_profile.html", existing_profile),
              session |-> current_user.session]
        ELSE LET r == commit_profile_form(table, current_user.out["user_id"],
                                          fields)
             IN  [status |-> r.status, table |-> r.table, out |-> r.out,
                  session |-> current_user.session]

\* create_profile_api after its existence check: [status, table, out]; the
\* IntegrityError of the commit is not caught
commit_profile_api(table, user_id, profile_data) ==
    LET profile == UserProfile(table, user_id, profile_data)
        done == insert_profile(table, profile)
    IN  IF done.ok
        THEN [status |-> 200, table |-> done.table, out |-> profile]
        ELSE [status |-> 500, table |-> table, out |-> NoRow]

\* GET /profile/me: [status, out, session]
get_my_profile_page(request, table, t) ==
    LET current_user == get_current_user_session(request, t)
        profile == query_profile(table, current_user.out["user_id"])
    IN  IF current_user.status # 200
        THEN [status |-> 401, out |-> NoRow, session |-> current_user.session]
        ELSE IF profile = NoRow
        THEN [status |-> 200, out |-> Page("no_profile.html", NoRow),
              session |-> current_user.session]
        ELSE [status |-> 200, out |-> Page("my_profile.html", profile),
              session |-> current_user.session]

\* GET /profile/edit: [status, out, session]
edit_profile_form(request, table, t) ==
    LET current_user == get_current_user_session(request, t)
        profile == query_profile(table, current_user.out["user_id"])
    IN  IF current_user.status # 200
        THEN [status |-> 401, out |-> NoRow, session |-> current_user.session]
        ELSE IF profile = NoRow
        THEN [status |-> 302, out |-> NoRow, session |-> current_user.session]
        ELSE [status |-> 200, out |-> Page("edit_profile.html", profile),
              session |-> current_user.session]

\* POST /profile/edit: [status, table, out, session]
update_profile_form(request, table, fields, t) ==
    LET current_user == get_current_user_session(request, t)
        profile == query_profile(table, current_user.out["user_id"])
        updated == [profile EXCEPT !.first_name = fields.first_name,
                                   !.last_name = fields.last_name,
                                   !.email = fields.email,
                                   !.phone = OrNone(fields.phone),
                                   !.bio = OrNone(fields.bio)]
    IN  IF current_user.status # 200
        THEN [status |-> 401, table |-> table, out |-> NoRow,
              session |-> current_user.session]
        ELSE IF profile = NoRow
        THEN [status |-> 302, table |-> table, out |-> NoRow,
              session |-> current_user.session]
        ELSE [status |-> 200, table |-> (table \ {profile}) \cup {updated},
              out |-> Page("profile_success.html", updated),
              session |-> current_user.session]

\* POST /profile/delete: [status, table, session]
delete_profile(request, table, t) ==
    LET current_user == get_current_user_session(request, t)
        profile == query_profile(table, current_user.out["user_id"])
    IN  IF current_user.status # 200
        THEN [status |-> 401, table |-> table, session |-> current_user.session]
        ELSE [status |-> 302, table |-> table \ {profile},
              session |-> current_user.session]

\* PUT /profile/me/api: [status, table, out]
update_profile_api(request, accounts, table, profile_data, t) ==
    LET current_user == jwt_get_current_user(request, t)
        user == query_user(accounts, current_user.out.username)
        profile == query_profile(table, user.id)
        updated == [k \in DOMAIN profile |->
                       IF k \in DOMAIN profile_data THEN profile_data[k]
                       ELSE profile[k]]
    IN  IF current_user.status # 200
        THEN [status |-> 401, table |-> table, out |-> NoRow]
        ELSE IF ~ProfileValid(profile_data)
        THEN [status |-> 422, table |-> table, out |-> NoRow]
        ELSE IF user = NoRow \/ profile = NoRow
        THEN [status |-> 404, table |-> table, out |-> NoRow]
        ELSE [status |-> 200, table |-> (table \ {profile}) \cup {updated},
              out |-> updated]

\* DELETE /profile/me/api: [status, table]
delete_profile_api(request, accounts, table, t) ==
    LET current_user == jwt_get_current_user(request, t)
        user == query_user(accounts, current_user.out.username)
        profile == query_profile(table, user.id)
    IN  IF current_user.status # 200 THEN [status |-> 401, table |-> table]
        ELSE IF user = NoRow \/ profile = NoRow
        THEN [status |-> 404, table |-> table]
        ELSE [status |-> 200, table |-> table \ {profile}]

\* GET /profile/me/session: [status, out, session]
get_profile_session_api(request, table, t) ==
    LET current_user == get_current_user_session(request, t)
        profile == query_profile(table, current_user.out["user_id"])
    IN  IF current_user.status # 200
        THEN [status |-> 401, out |-> NoRow, session |-> current_user.session]
        ELSE IF profile = NoRow
        THEN [status |-> 404, out |-> NoRow, session |-> current_user.session]
        ELSE [status |-> 200, out |-> profile, session |-> current_user.session]

---------------------------------------------------------------------------
(* oauth.py *)

\* The key under which authorize_redirect keeps the handshake's state
StateKey == "_state_google"

Without(s, key) == [k \in DOMAIN s \ {key} |-> s[k]]

\* GET /login/google: [status, session]; redirected is whether
\* authorize_redirect returned the redirect or raised
login_via_google(s, configured, redirected) ==
    IF ~configured THEN [status |-> 500, session |-> s]
    ELSE IF redirected
    THEN [status |-> 302,
          session |-> DictUpdate(clear_session(s), [_state_google |-> "state"])]
    ELSE [status |-> 500, session |-> clear_session(s)]

\* The user_info that Google answers with
UserInfos ==
    { [email |-> "bob@x.io", name |-> "Bob", sub |-> "g-1"],
      [sub |-> "g-2"] }

\* auth_callback's session_data
callback_session_data(user, user_info) ==
    [user_id      |-> user.id,
     username     |-> user.username,
     email        |-> user_info["email"],
     role         |-> user.role,
     display_name |-> Get(user_info, "name", Get(user_info, "email", "User")),
     google_info  |-> [name      |-> Get(user_info, "name", None),
                       picture   |-> Get(user_info, "picture", None),
                       google_id |-> Get(user_info, "sub", None)]]

\* An auth_callback that adds the row before it looks for the email
auth_callback_row_first(s, configured, table, exchanged, user_info, t, n) ==
    [status |-> 400, session |-> s,
     table |-> table \cup {[id |-> NextId(table), username |-> None,
                            hashed_password |-> EmptyHash, role |-> "user"]},
     created |-> FALSE]

\* GET /auth/callback: [status, session, table, created]; exchanged is whether
\* authorize_access_token returned a token (it raises without the handshake's
\* state in the session, and takes the state out of the session)
auth_callback(s, configured, table, exchanged, user_info, t, n) ==
    IF ~configured
    THEN [status |-> 500, session |-> s, table |-> table, created |-> FALSE]
    ELSE IF ~exchanged \/ StateKey \notin DOMAIN s
    THEN [status |-> 400, session |-> s, table |-> table, created |-> FALSE]
    ELSE IF "email" \notin DOMAIN user_info
    THEN [status |-> 400, session |-> Without(s, StateKey), table |-> table,
          created |-> FALSE]
    ELSE LET found == query_user(table, user_info["email"])
             new_user == [id |-> NextId(table), username |-> user_info["email"],
                          hashed_password |-> EmptyHash, role |-> "user"]
             done == insert_user(table, new_user)
             existing_user == IF found = NoRow THEN new_user ELSE found
         IN  [status |-> 302,
              session |-> create_user_session(
                              Without(s, StateKey),
                              callback_session_data(existing_user, user_info),
                              t, n),
              table |-> IF found = NoRow THEN done.table ELSE table,
              created |-> TRUE]

---------------------------------------------------------------------------
(* The routes.  ret.status is the status the handler or its guard ends     *)
(* with, before the application's exception handlers.                      *)

MaxUsers == 2       \* rows in the users table
MaxProfileId == 3   \* the highest id a row of user_profiles gets
MaxPending == 2     \* profile creates between their check and their commit

Usernames == {"alice", "Alice"}
Passwords == {"pw1", "pw2"}

\* UserIn (role: str = "user" takes any string) and LoginRequest
SignupInputs ==
    { [username |-> "alice", password |-> "pw1", role |-> "admin"],
      [username |-> "alice", password |-> "pw2", role |-> "user"],
      [username |-> "Alice", password |-> "pw2", role |-> "admin"],
      [username |-> "Alice", password |-> "pw1", role |-> "owner"] }
LoginInputs == [username : Usernames, password : Passwords]

\* ProfileCreate bodies: a phone of 10 characters, and one of 9
ProfileInputs ==
    { [first_name |-> "Al", phone |-> "0123456789"],
      [first_name |-> "Al", phone |-> "012345678"] }

\* The fields of the HTML forms: a phone of 3 characters and no bio, and a
\* phone of 10 characters with a bio
FormInputs ==
    { [first_name |-> "Al", last_name |-> "Ice", email |-> "al@x.io",
       phone |-> "123", bio |-> ""],
      [first_name |-> "Al", last_name |-> "Ice", email |-> "al@x.io",
       phone |-> "0123456789", bio |-> "hello"] }

\* POST /signup
Signup(user) ==
    /\ Cardinality(users) < MaxUsers \/ query_user(users, user.username) # NoRow
    /\ LET r == signup(users, user)
       IN  /\ users' = r.table
           /\ Respond(Current,
                      Reply("signup", "", r.status, [user_id |-> r.user_id]))
           /\ signed_up' = IF r.status # 200 THEN signed_up
                           ELSE signed_up \cup
                                {[username |-> user.username,
                                  password |-> user.password,
                                  role |-> user.role, user_id |-> r.user_id]}
    /\ UNCHANGED <<csrf_seq, given, touched, bearer, issued, profiles, oauth, limiter, racing,
                   logged_out, pending>>

\* POST /login
Login(login_data) ==
    LET c == check_credentials(users, login_data)
    IN  /\ IF c.status # 200
           THEN /\ Respond(Current, Reply("login", "", c.status, NoUser))
                /\ UNCHANGED <<csrf_seq, given, touched, logged_out>>
           ELSE /\ csrf_seq < MaxSessions
                /\ Respond(create_user_session(Current, login_session_data(c.user),
                                               now, csrf_seq),
                           Reply("login", "", 200,
                                 [username |-> c.user.username,
                                  role |-> c.user.role]))
                /\ csrf_seq' = csrf_seq + 1
                /\ given' = login_session_data(c.user)
                /\ touched' = FALSE
                /\ logged_out' = FALSE
        /\ UNCHANGED <<bearer, issued, store, signed_up>>

\* POST /logout, GET /logout
Logout ==
    /\ Respond(clear_session(Current), Reply("logout", "", 200, NoUser))
    /\ logged_out' = TRUE
    /\ UNCHANGED <<csrf_seq, given, touched, bearer, issued, store, signed_up>>

\* POST /api/login: the client keeps the access_token
ApiLogin(login_data) ==
    LET c == check_credentials(users, login_data)
    IN  /\ IF c.status # 200
           THEN /\ Respond(Current, Reply("api_login", "", c.status, NoUser))
                /\ UNCHANGED <<bearer, issued>>
           ELSE /\ Respond(Current, Reply("api_login", "", 200, NoUser))
                /\ bearer' = create_jwt_token(c.user.username, c.user.role, now)
                /\ issued' = [username |-> c.user.username,
                              role |-> c.user.role, at |-> now]
        /\ UNCHANGED <<csrf_seq, given, touched, store, history>>

\* GET /dashboard, and every route behind get_current_user_session
Dashboard ==
    /\ LET r == get_current_user_session(Request(Current, bearer), now)
       IN  Respond(r.session, Reply("dashboard", "", r.status, r.out))
    /\ UNCHANGED <<csrf_seq, given, touched, bearer, issued, store, history>>

\* GET /admin, and every route behind get_admin_user_session
AdminPanel ==
    /\ LET r == get_admin_user_session(Request(Current, bearer), now)
       IN  Respond(r.session, Reply("admin_panel", "", r.status, r.out))
    /\ UNCHANGED <<csrf_seq, given, touched, bearer, issued, store, history>>

\* GET /: the login page, or the redirect to the dashboard
LoginPage ==
    /\ LET r == get_optional_user_session(Request(Current, bearer), now)
       IN  Respond(r.session,
                   Reply("login_page", "", IF r.out = NoUser THEN 200 ELSE 302,
                         r.out))
    /\ UNCHANGED <<csrf_seq, given, touched, bearer, issued, store, history>>

\* POST /profile/
CreateProfileApi(profile_data) ==
    /\ LET r == create_profile_api(Request(Current, bearer), users, profiles,
                                   profile_data, now)
       IN  /\ r.table = profiles \/ NextId(profiles) <= MaxProfileId
           /\ profiles' = r.table
           /\ Respond(Current, Reply("create_profile_api", "", r.status, r.out))
    /\ UNCHANGED <<csrf_seq, given, touched, bearer, issued, users, oauth, history,
                   pending, limiter, racing>>

\* GET /profile/me/api
GetMyProfileApi ==
    /\ LET r == get_my_profile_api(Request(Current, bearer), users, profiles, now)
       IN  Respond(Current, Reply("get_my_profile_api", "", r.status, r.out))
    /\ UNCHANGED <<csrf_seq, given, touched, bearer, issued, store, history>>

\* The client drops its token, or alters it
DropToken ==
    /\ bearer # NoToken
    /\ bearer' = NoToken
    /\ issued' = EmptyDict
    /\ ret' = Reply("drop_token", "", 200, NoUser)
    /\ UNCHANGED <<now, session, cookie_time, csrf_seq, given, touched, store, history>>

\* GET /login/google
LoginViaGoogle(redirected) ==
    /\ LET r == login_via_google(Current, oauth, redirected)
       IN  Respond(r.session, Reply("login_via_google", "", r.status, NoUser))
    /\ UNCHANGED <<csrf_seq, given, touched, bearer, issued, store, history>>

\* GET /auth/callback
AuthCallback(exchanged, user_info) ==
    LET r == auth_callback(Current, oauth, users, exchanged, user_info, now,
                           csrf_seq)
    IN  /\ r.created => (csrf_seq < MaxSessions
                          /\ (Cardinality(users) < MaxUsers \/ r.table = users))
        /\ Respond(r.session,
                   Reply("auth_callback",
                         [exchanged |-> exchanged,
                          email |-> Get(user_info, "email", None)],
                         r.status, NoUser))
        /\ users' = r.table
        /\ IF r.created
           THEN /\ csrf_seq' = csrf_seq + 1
                /\ given' = callback_session_data(
                                query_user(r.table, user_info["email"]), user_info)
                /\ touched' = FALSE
                /\ logged_out' = FALSE
           ELSE UNCHANGED <<csrf_seq, given, touched, logged_out>>
        /\ UNCHANGED <<bearer, issued, profiles, oauth, signed_up, pending, limiter,
                       racing>>

\* The variables the profile routes leave alone
profile_frame == <<csrf_seq, given, touched, bearer, issued, users, oauth, history,
                   limiter, racing>>

\* POST /profile/create
CreateProfileForm(fields) ==
    /\ LET r == create_profile_form(Request(Current, bearer), profiles, fields, now)
       IN  /\ r.table = profiles \/ NextId(profiles) <= MaxProfileId
           /\ profiles' = r.table
           /\ Respond(r.session, Reply("create_profile_form", "", r.status, r.out))
    /\ UNCHANGED <<profile_frame, pending>>

\* POST /profile/create up to its existence check, which finds no profile; the
\* requests of other handlers run before the commit
BeginCreateProfileForm(fields) ==
    /\ Cardinality(pending) < MaxPending
    /\ LET current_user == get_current_user_session(Request(Current, bearer), now)
       IN  /\ current_user.status = 200
           /\ query_profile(profiles, current_user.out["user_id"]) = NoRow
           /\ pending' = pending \cup {[route |-> "form",
                                        user_id |-> current_user.out["user_id"],
                                        fields |-> fields]}
    /\ ret' = Reply("begin_create_profile", "form", 200, NoRow)
    /\ UNCHANGED <<now, session, cookie_time, profiles, profile_frame>>

\* POST /profile/ up to its existence check, which finds no profile
BeginCreateProfileApi(profile_data) ==
    /\ Cardinality(pending) < MaxPending
    /\ LET current_user == jwt_get_current_user(Request(Current, bearer), now)
           user == query_user(users, current_user.out.username)
       IN  /\ current_user.status = 200
           /\ ProfileValid(profile_data)
           /\ user # NoRow
           /\ query_profile(profiles, user.id) = NoRow
           /\ pending' = pending \cup {[route |-> "api", user_id |-> user.id,
                                        fields |-> profile_data]}
    /\ ret' = Reply("begin_create_profile", "api", 200, NoRow)
    /\ UNCHANGED <<now, session, cookie_time, profiles, profile_frame>>

\* db.add, db.commit and the response of a create that had passed its check
\* (the cookie of the response is left out)
CommitCreateProfile(p) ==
    /\ p \in pending
    /\ LET r == IF p.route = "form"
                THEN commit_profile_form(profiles, p.user_id, p.fields)
                ELSE commit_profile_api(profiles, p.user_id, p.fields)
       IN  /\ r.table = profiles \/ NextId(profiles) <= MaxProfileId
           /\ profiles' = r.table
           /\ ret' = Reply(IF p.route = "form" THEN "create_profile_form"
                           ELSE "create_profile_api", "commit", r.status, r.out)
    /\ pending' = pending \ {p}
    /\ UNCHANGED <<now, session, cookie_time, profile_frame>>

\* GET /profile/me
GetMyProfilePage ==
    /\ LET r == get_my_profile_page(Request(Current, bearer), profiles, now)
       IN  Respond(r.session, Reply("get_my_profile_page", "", r.status, r.out))
    /\ UNCHANGED <<profile_frame, profiles, pending>>

\* GET /profile/edit
EditProfileForm ==
    /\ LET r == edit_profile_form(Request(Current, bearer), profiles, now)
       IN  Respond(r.session, Reply("edit_profile_form", "", r.status, r.out))
    /\ UNCHANGED <<profile_frame, profiles, pending>>

\* POST /profile/edit
UpdateProfileForm(fields) ==
    /\ LET r == update_profile_form(Request(Current, bearer), profiles, fields, now)
       IN  /\ profiles' = r.table
           /\ Respond(r.session, Reply("update_profile_form", "", r.status, r.out))
    /\ UNCHANGED <<profile_frame, pending>>

\* POST /profile/delete
DeleteProfile ==
    /\ LET r == delete_profile(Request(Current, bearer), profiles, now)
       IN  /\ profiles' = r.table
           /\ Respond(r.session, Reply("delete_profile", "", r.status, NoRow))
    /\ UNCHANGED <<profile_frame, pending>>

\* PUT /profile/me/api
UpdateProfileApi(profile_data) ==
    /\ LET r == update_profile_api(Request(Current, bearer), users, profiles,
                                   profile_data, now)
       IN  /\ profiles' = r.table
           /\ Respond(Current, Reply("update_profile_api", "", r.status, r.out))
    /\ UNCHANGED <<profile_frame, pending>>

\* DELETE /profile/me/api
DeleteProfileApi ==
    /\ LET r == delete_profile_api(Request(Current, bearer), users, profiles, now)
       IN  /\ profiles' = r.table
           /\ Respond(Current, Reply("delete_profile_api", "", r.status, NoRow))
    /\ UNCHANGED <<profile_frame, pending>>

\* GET /profile/me/session
GetProfileSessionApi ==
    /\ LET r == get_profile_session_api(Request(Current, bearer), profiles, now)
       IN  Respond(r.session, Reply("get_profile_session_api", "", r.status, r.out))
    /\ UNCHANGED <<profile_frame, profiles, pending>>

ProfileSignups == {[username |-> "alice", password |-> "pw1", role |-> "user"]}
ProfileLogins == {[username |-> "alice", password |-> "pw1"]}

\* One user with a session and a token, and every profile route
NextProfiles ==
    \/ \E user \in ProfileSignups : Signup(user)
    \/ \E login_data \in ProfileLogins : Login(login_data)
    \/ \E login_data \in ProfileLogins : ApiLogin(login_data)
    \/ \E profile_data \in ProfileInputs : CreateProfileApi(profile_data)
    \/ \E fields \in FormInputs : CreateProfileForm(fields)
    \/ \E fields \in FormInputs : BeginCreateProfileForm(fields)
    \/ \E profile_data \in ProfileInputs : BeginCreateProfileApi(profile_data)
    \/ \E p \in pending : CommitCreateProfile(p)
    \/ GetMyProfileApi
    \/ GetMyProfilePage
    \/ EditProfileForm
    \/ GetProfileSessionApi
    \/ \E fields \in FormInputs : UpdateProfileForm(fields)
    \/ \E profile_data \in ProfileInputs : UpdateProfileApi(profile_data)
    \/ DeleteProfile
    \/ DeleteProfileApi

SpecProfiles == InitNoOAuth /\ [][NextProfiles]_vars

MaxPhoneLen == 11   \* the longest phone a request carries
MaxBioLen == 201    \* the longest bio a request carries

\* A string of n characters
RECURSIVE StringOf(_)
StringOf(n) ==
    IF n = 0 THEN ""
    ELSE LET half == StringOf(n \div 2)
         IN  half \o half \o (IF n % 2 = 1 THEN "x" ELSE "")

\* Optional[str] = None, or a string up to max characters
OptionalStrings(max) == {None} \cup {StringOf(n) : n \in 0..max}

\* ProfileCreate(phone=v): pydantic runs the validator of the field
ValidatePhone(v) ==
    /\ ret' = Reply("validate_phone", v, IF validate_phone(v) THEN 200 ELSE 422,
                    NoRow)
    /\ UNCHANGED <<now, session, cookie_time, profiles, profile_frame, pending>>

\* ProfileCreate(bio=v)
ValidateBio(v) ==
    /\ ret' = Reply("validate_bio", v, IF validate_bio(v) THEN 200 ELSE 422,
                    NoRow)
    /\ UNCHANGED <<now, session, cookie_time, profiles, profile_frame, pending>>

NextValidate ==
    \/ \E v \in OptionalStrings(MaxPhoneLen) : ValidatePhone(v)
    \/ \E v \in OptionalStrings(MaxBioLen) : ValidateBio(v)

SpecValidate == InitNoOAuth /\ [][NextValidate]_vars

\* Accounts and sessions: signup, the logins and logouts, the session guards
NextAccounts ==
    \/ \E user \in SignupInputs : Signup(user)
    \/ \E login_data \in LoginInputs : Login(login_data)
    \/ Logout
    \/ Dashboard
    \/ LoginPage
    \/ \E redirected \in BOOLEAN : LoginViaGoogle(redirected)
    \/ \E exchanged \in BOOLEAN, user_info \in UserInfos :
           AuthCallback(exchanged, user_info)

SpecAccounts == InitOAuth /\ [][NextAccounts]_vars

\* One account, used through the cookie session and through a bearer token
GuardSignups ==
    { [username |-> "alice", password |-> "pw1", role |-> "admin"],
      [username |-> "Alice", password |-> "pw1", role |-> "user"] }
GuardLogins == {[username |-> u.username, password |-> u.password] : u \in GuardSignups}

NextGuards ==
    \/ \E user \in GuardSignups : Signup(user)
    \/ \E login_data \in GuardLogins : Login(login_data)
    \/ \E login_data \in GuardLogins : ApiLogin(login_data)
    \/ Logout
    \/ Dashboard
    \/ AdminPanel
    \/ LoginPage
    \/ \E profile_data \in ProfileInputs : CreateProfileApi(profile_data)
    \/ GetMyProfileApi
    \/ DropToken
    \/ ForgeToken
    \/ \E d \in SessionSteps : Tick(d, Hours(12))

SpecGuards == InitNoOAuth /\ [][NextGuards]_vars

---------------------------------------------------------------------------
(* Properties of the accounts and of the guards *)

\* C5: after a logout, and until a login or an OAuth callback creates a
\* session, the session is not authenticated, get_current_user returns no
\* user and require_auth fails with 401.
C5_LoggedOutStaysOut ==
    logged_out
        => /\ ~IsAuthenticated(session)
           /\ ret.op = "dashboard" => ret.status = 401
           /\ ret.op = "login_page" => (ret.value = NoUser /\ ret.status = 200)

\* C5's case: a user who had a session logged out and then asked for the
\* dashboard
C5_Witness ==
    /\ logged_out
    /\ csrf_seq > 0
    /\ ret.op = "dashboard"
    /\ ret.status = 401

UniqueUsernames ==
    \A u1, u2 \in users : u1.username = u2.username => u1 = u2

HoldsGoodToken ==
    /\ issued # EmptyDict
    /\ bearer # NoToken
    /\ now <= issued.at + EXPIRE_MINUTES

\* C8: what a session-guarded route answers is decided by the session alone,
\* whatever token the request carries, and what a token-guarded route answers
\* is decided by the token alone, whatever session the request carries.
C8_GuardsIndependent ==
    [][/\ Did("dashboard")
            => (ret'.status = IF IsAuthenticated(Current) THEN 200 ELSE 401)
       /\ Did("admin_panel")
            => (ret'.status = IF ~IsAuthenticated(Current) THEN 401
                              ELSE IF Current["role"] = "admin" THEN 200
                              ELSE 403)
       /\ Did("login_page") => (ret'.value = NoUser <=> ~IsAuthenticated(Current))
       /\ (Did("get_my_profile_api") \/ Did("create_profile_api"))
            => /\ ret'.status = 401 <=> ~HoldsGoodToken
               /\ session' = Current]_vars

\* C8's cases: a request with a valid session and no valid token was turned
\* away by a token-guarded route, ...
C8_Witness ==
    /\ ret.op = "get_my_profile_api"
    /\ ret.status = 401
    /\ IsAuthenticated(session)
    /\ ~HoldsGoodToken

\* ... and one with a valid token and no session by a session-guarded route, ...
C8_WitnessToken ==
    /\ ret.op = "dashboard"
    /\ ret.status = 401
    /\ HoldsGoodToken
    /\ session = EmptyDict

\* ... and an admin's token did not lift a user's session into the admin panel
C8_WitnessAdmin ==
    /\ ret.op = "admin_panel"
    /\ ret.status = 403
    /\ HoldsGoodToken
    /\ issued.role = "admin"

---------------------------------------------------------------------------
(* Properties of the credential store *)

\* C11: in every reachable state every user's role is "user" or "admin", and
\* so is the role of an authenticated session.
C11_RolesInEnum ==
    /\ \A u \in users : u.role \in Roles
    /\ IsAuthenticated(session) => session["role"] \in Roles

---------------------------------------------------------------------------
(* Password logins and the OAuth flow, with and without a configured       *)
(* provider.                                                               *)

OAuthSignups == {[username |-> "alice", password |-> "pw1", role |-> "admin"]}

\* LoginRequest bodies: the right password, a wrong one, an unknown username,
\* and the username of an OAuth user with a password and with the empty one
OAuthLogins ==
    { [username |-> "alice", password |-> "pw1"],
      [username |-> "alice", password |-> "pw2"],
      [username |-> "carol", password |-> "pw1"],
      [username |-> "bob@x.io", password |-> "pw1"],
      [username |-> "bob@x.io", password |-> ""] }

NextOAuth ==
    \/ \E user \in OAuthSignups : Signup(user)
    \/ \E login_data \in OAuthLogins : Login(login_data)
    \/ \E login_data \in OAuthLogins : ApiLogin(login_data)
    \/ Logout
    \/ Dashboard
    \/ \E redirected \in BOOLEAN : LoginViaGoogle(redirected)
    \/ \E exchanged \in BOOLEAN, user_info \in UserInfos :
           AuthCallback(exchanged, user_info)

SpecOAuth == Init /\ [][NextOAuth]_vars

\* The username and password are those of a signup that succeeded
SignedUpWith(login_data) ==
    \E g \in signed_up : /\ g.username = login_data.username
                         /\ g.password = login_data.password

\* The step creates no session and issues no token
NothingGranted ==
    /\ csrf_seq' = csrf_seq
    /\ session' = Current
    /\ bearer' = bearer

\* C12: a password login that fails, because the username is unknown or
\* because the password does not match, is answered 401 with the same body in
\* both cases, creates no session and issues no token.
C12_SameFailure ==
    [][\A login_data \in OAuthLogins :
          ((Login(login_data) \/ ApiLogin(login_data)) /\ ~SignedUpWith(login_data))
          => /\ ret'.status = 401
             /\ ret'.value = NoUser
             /\ NothingGranted]_vars

\* The row of an OAuth user: created by the callback with the empty hash
IsOAuthUser(username) ==
    \E u \in users : u.username = username /\ u.hashed_password = EmptyHash

\* C13: a password login with the username of a user the OAuth callback
\* created is rejected as unauthorized (401) whatever the password, creates no
\* session and issues no token.
C13_OAuthUserNoPassword ==
    [][\A login_data \in OAuthLogins :
          ((Login(login_data) \/ ApiLogin(login_data))
              /\ IsOAuthUser(login_data.username))
          => /\ ret'.status = 401
             /\ NothingGranted]_vars

\* The callback of a configured provider ends before it has a user: the code
\* exchange raised, or no email came back
CallbackFails(exchanged, user_info) ==
    /\ oauth
    /\ \/ ~exchanged
       \/ StateKey \notin DOMAIN Current
       \/ "email" \notin DOMAIN user_info

\* C14: a callback whose exchange raises, or that obtains no email, ends with
\* 400, adds no user row, creates no session, and the caller is not
\* authenticated afterwards.
C14_FailedCallback ==
    [][\A exchanged \in BOOLEAN, user_info \in UserInfos :
          (AuthCallback(exchanged, user_info) /\ CallbackFails(exchanged, user_info))
          => /\ ret'.status = 400
             /\ users' = users
             /\ csrf_seq' = csrf_seq
             /\ ~IsAuthenticated(session')]_vars

\* C14, as the code has it: such a callback ends with 400, adds no user row
\* and creates no session; it leaves the session it found, less the state of
\* the handshake, so a caller who was authenticated before still is.
C14_FailedCallbackKeepsSession ==
    [][\A exchanged \in BOOLEAN, user_info \in UserInfos :
          (AuthCallback(exchanged, user_info) /\ CallbackFails(exchanged, user_info))
          => /\ ret'.status = 400
             /\ users' = users
             /\ csrf_seq' = csrf_seq
             /\ session' \in {Current, Without(Current, StateKey)}]_vars

\* C14's case: the exchange went through, no email came back, and the caller,
\* who had logged in with a password before, is still authenticated
C14_Witness ==
    /\ ret.op = "auth_callback"
    /\ ret.status = 400
    /\ ret.arg.exchanged
    /\ ret.arg.email = None
    /\ IsAuthenticated(session)
    /\ StateKey \notin DOMAIN session

\* C15: after GET /login/google, whatever its outcome, the caller's session is
\* not authenticated.
C15_InitiateClears ==
    [][\A redirected \in BOOLEAN :
          LoginViaGoogle(redirected) => ~IsAuthenticated(session')]_vars

---------------------------------------------------------------------------
(* Properties of the profiles *)

AtMostOneProfile ==
    \A p, q \in profiles : p.user_id = q.user_id => p = q

\* The user of the session, and of the token, has a profile
SessionUserHasProfile ==
    /\ IsAuthenticated(Current)
    /\ \E q \in profiles : q.user_id = Current["user_id"]

TokenUserHasProfile ==
    /\ HoldsGoodToken
    /\ \E u \in users : /\ u.username = issued.username
                        /\ \E q \in profiles : q.user_id = u.id

\* C16: a user has at most one profile, whatever the interleaving of the
\* creates of the two routes; a create for a user who has a profile is
\* answered with the Conflict (400) and leaves the table as it is.
C16_OneProfile ==
    /\ []AtMostOneProfile
    /\ [][/\ \A fields \in FormInputs :
                (CreateProfileForm(fields) /\ SessionUserHasProfile)
                => (ret'.status = 400 /\ profiles' = profiles)
          /\ \A profile_data \in ProfileInputs :
                (CreateProfileApi(profile_data) /\ TokenUserHasProfile
                    /\ ProfileValid(profile_data))
                => (ret'.status = 400 /\ profiles' = profiles)
          /\ \A p \in pending :
                (CommitCreateProfile(p)
                    /\ \E q \in profiles : q.user_id = p.user_id)
                => (ret'.status = 400 /\ profiles' = profiles)]_vars

\* C17: every stored profile has a phone that is absent or at least 10
\* characters long and a bio that is absent or at most 200 characters long.
C17_StoredProfilesValid ==
    \A q \in profiles :
        /\ q.phone = None \/ q.phone = "" \/ Len(q.phone) >= 10
        /\ q.bio = None \/ q.bio = "" \/ Len(q.bio) <= 200

C18_WitnessBio201 ==
    /\ ret.op = "validate_bio"
    /\ ret.arg # None
    /\ Len(ret.arg) = 201
    /\ ret.status = 422

\* ... a phone of 9 was rejected and one of 10 accepted
C18_WitnessPhone9 ==
    /\ ret.op = "validate_phone"
    /\ ret.arg # None
    /\ Len(ret.arg) = 9
    /\ ret.status = 422

C18_WitnessPhone10 ==
    /\ ret.op = "validate_phone"
    /\ ret.arg # None
    /\ Len(ret.arg) = 10
    /\ ret.status = 200

\* The user of the session, and of the token, has no profile
SessionUserNoProfile ==
    /\ IsAuthenticated(Current)
    /\ ~\E q \in profiles : q.user_id = Current["user_id"]

TokenUserNoProfile ==
    /\ HoldsGoodToken
    /\ \E u \in users : /\ u.username = issued.username
                        /\ ~\E q \in profiles : q.user_id = u.id

\* C19: for an authenticated user without a profile, every route that reads,
\* updates or deletes the profile answers 404 and leaves the table as it is.
C19_MissingProfile ==
    [][/\ (/\ TokenUserNoProfile
           /\ \/ GetMyProfileApi
              \/ DeleteProfileApi
              \/ \E profile_data \in ProfileInputs :
                     ProfileValid(profile_data) /\ UpdateProfileApi(profile_data))
          => (ret'.status = 404 /\ profiles' = profiles)
       /\ (/\ SessionUserNoProfile
           /\ \/ GetProfileSessionApi
              \/ GetMyProfilePage
              \/ EditProfileForm
              \/ DeleteProfile
              \/ \E fields \in FormInputs : UpdateProfileForm(fields))
          => (ret'.status = 404 /\ profiles' = profiles)]_vars

---------------------------------------------------------------------------
(* Properties of the session snapshot *)

\* What a snapshot may show, and what it must not
SnapshotKeys ==
    {"status", "username", "role", "login_time", "last_activity", "session_keys"}

SecretKeys == {"csrf_token", "password", "hashed_password"}

\* C20: get_session_info leaves the session as it found it (last_activity is
\* not refreshed, an idle session is not cleared); its result holds the status,
\* the username, the role, the two timestamps and the names of the stored
\* keys, never the CSRF token or a password; for a session that is not
\* authenticated it is the status "not_authenticated" alone.
C20_SessionInfoReadOnly ==
    [][Did("get_session_info")
        => /\ session' = Current
           /\ csrf_seq' = csrf_seq
           /\ DOMAIN ret'.value \subseteq SnapshotKeys
           /\ DOMAIN ret'.value \cap SecretKeys = {}
           /\ IF IsAuthenticated(Current)
              THEN /\ ret'.value.status = "authenticated"
                   /\ ret'.value.login_time = Get(Current, "login_time", NoneInt)
                   /\ ret'.value.last_activity
                        = Get(Current, "last_activity", NoneInt)
                   /\ ret'.value.session_keys = DOMAIN Current
              ELSE ret'.value = [status |-> "not_authenticated"]]_vars

\* C20's case: the snapshot of a session idle for more than 24 hours, which is
\* still there afterwards with its old last_activity
C20_Witness ==
    /\ ret.op = "get_session_info"
    /\ IsAuthenticated(session)
    /\ ret.value.status = "authenticated"
    /\ now - session["last_activity"] > Hours(max_age_hours)
    /\ ret.value.last_activity = session["last_activity"]

---------------------------------------------------------------------------
(* The app's exception handlers (main.py) around the routes: what the      *)
(* client is answered once a route or its guard has raised.                *)

\* request.url.path.startswith(prefix)
StartsWith(path, prefix) ==
    Len(path) >= Len(prefix) /\ SubSeq(path, 1, Len(prefix)) = prefix

\* What a handler hands back to Starlette: a Response, or a plain dict
Response(status, body, location) ==
    [response |-> TRUE, status |-> status, body |-> body, location |-> location]

PlainDict == [response |-> FALSE]

auth_exception_handler(path) ==
    IF StartsWith(path, "/api/") THEN PlainDict
    ELSE Response(302, "", "/?error=auth_required")

permission_exception_handler(path) ==
    IF StartsWith(path, "/api/") THEN PlainDict
    ELSE Response(403, "error.html", "")

\* Starlette calls what the handler returned as an ASGI app; a dict is not
\* callable, and the TypeError ends as the server's plain 500
send(handled) ==
    IF handled.response THEN handled
    ELSE Response(500, "Internal Server Error", "")

\* The answer to a request whose route ended with this status
exception_handlers(path, status) ==
    IF status = 401 THEN send(auth_exception_handler(path))
    ELSE IF status = 403 THEN send(permission_exception_handler(path))
    ELSE Response(status, "json", "")

\* A header that is not a JWT: nothing decodes from it
MalformedToken == [payload |-> EmptyDict, sig |-> Sign("", EmptyDict)]

\* The Authorization headers a client can send without a good token
BadTokens(token) == Forgeries(token) \cup {MalformedToken}

\* The client replaces its Authorization header
SendBadToken ==
    /\ \E token \in BadTokens(bearer) :
           /\ token # bearer
           /\ bearer' = token
    /\ issued' = EmptyDict
    /\ ret' = Reply("bad_token", "", 200, NoUser)
    /\ UNCHANGED <<now, session, cookie_time, csrf_seq, given, touched, store,
                   history>>

\* What the routes below leave alone
served_frame == <<csrf_seq, given, touched, bearer, issued, users, oauth,
                  history, pending, limiter, racing>>

\* A token route has run: the table it leaves, and the answer to the client
Serve(op, path, status, table) ==
    /\ profiles' = table
    /\ Respond(Current, Reply(op, path, status, exception_handlers(path, status)))
    /\ UNCHANGED served_frame

\* POST /profile/
PostProfile(profile_data) ==
    LET r == create_profile_api(Request(Current, bearer), users, profiles,
                                profile_data, now)
    IN  /\ r.table = profiles \/ NextId(profiles) <= MaxProfileId
        /\ Serve("create_profile_api", "/profile/", r.status, r.table)

\* GET /profile/me/api
GetProfileMeApi ==
    LET r == get_my_profile_api(Request(Current, bearer), users, profiles, now)
    IN  Serve("get_my_profile_api", "/profile/me/api", r.status, profiles)

\* PUT /profile/me/api
PutProfileMeApi(profile_data) ==
    LET r == update_profile_api(Request(Current, bearer), users, profiles,
                                profile_data, now)
    IN  Serve("update_profile_api", "/profile/me/api", r.status, r.table)

\* DELETE /profile/me/api
DeleteProfileMeApi ==
    LET r == delete_profile_api(Request(Current, bearer), users, profiles, now)
    IN  Serve("delete_profile_api", "/profile/me/api", r.status, r.table)

\* POST /api/login: the one route under /api/
PostApiLogin(login_data) ==
    LET c == check_credentials(users, login_data)
    IN  /\ Respond(Current, Reply("api_login", "/api/login", c.status,
                                  exception_handlers("/api/login", c.status)))
        /\ bearer' = IF c.status # 200 THEN bearer
                     ELSE create_jwt_token(c.user.username, c.user.role, now)
        /\ issued' = IF c.status # 200 THEN issued
                     ELSE [username |-> c.user.username, role |-> c.user.role,
                           at |-> now]
        /\ UNCHANGED <<csrf_seq, given, touched, store, history>>

\* GET /dashboard from a browser
GetDashboard ==
    LET r == get_current_user_session(Request(Current, bearer), now)
    IN  /\ Respond(r.session, Reply("dashboard", "/dashboard", r.status,
                                    exception_handlers("/dashboard", r.status)))
        /\ UNCHANGED <<csrf_seq, given, touched, bearer, issued, store, history>>

\* Minutes between requests: the clock reaches 30, 31 and 32
ServedSteps == {10, 11}

ServedSignups == {[username |-> "alice", password |-> "pw1", role |-> "user"]}
ServedLogins == {[username |-> "alice", password |-> "pw1"],
                 [username |-> "alice", password |-> "pw2"]}

\* The token routes, /api/login and a browser route behind the handlers
NextServed ==
    \/ \E user \in ServedSignups : Signup(user)
    \/ \E login_data \in ServedLogins : PostApiLogin(login_data)
    \/ SendBadToken
    \/ DropToken
    \/ \E profile_data \in ProfileInputs : PostProfile(profile_data)
    \/ GetProfileMeApi
    \/ \E profile_data \in ProfileInputs : PutProfileMeApi(profile_data)
    \/ DeleteProfileMeApi
    \/ GetDashboard
    \/ \E d \in ServedSteps : Tick(d, EXPIRE_MINUTES + MaxOverrun)

SpecServed == InitNoOAuth /\ [][NextServed]_vars

TokenRouteOps == {"create_profile_api", "get_my_profile_api",
                  "update_profile_api", "delete_profile_api"}

\* No token, or one that jwt.decode refuses
HoldsNoGoodToken == bearer = NoToken \/ verify_jwt_token(bearer, now) = NoUser

\* C21: a request to a token route without a token, or with a malformed,
\* wrongly signed or expired one, is answered with 401 and a JSON body and
\* writes nothing; a browser request without a session is redirected to the
\* login page.
C21_Unauthenticated401 ==
    [][/\ (ret'.op \in TokenRouteOps /\ now' = now /\ HoldsNoGoodToken)
            => /\ ret'.value.status = 401
               /\ ret'.value.body = "json"
               /\ users' = users
               /\ profiles' = profiles
       /\ (Did("dashboard") /\ ret'.status = 401)
            => /\ ret'.value.status = 302
               /\ ret'.value.location = "/?error=auth_required"]_vars

\* What holds of C21: the guard raises 401, nothing is written, and the
\* handler turns the 401 into the redirect, for the token routes as well
C21_RejectedWithoutWrite ==
    [][(ret'.op \in TokenRouteOps /\ now' = now /\ HoldsNoGoodToken)
          => /\ ret'.status = 401
             /\ ret'.value = Response(302, "", "/?error=auth_required")
             /\ users' = users
             /\ profiles' = profiles]_vars

\* POST /api/login with a wrong password: the handler's dict ends as a 500
C21_ApiPathAnswer ==
    [][(Did("api_login") /\ ret'.status = 401) => ret'.value.status = 500]_vars

\* An expired token was refused while a profile was stored
C21_WitnessExpired ==
    /\ ret.op \in TokenRouteOps
    /\ ret.status = 401
    /\ issued # EmptyDict
    /\ now - issued.at > EXPIRE_MINUTES
    /\ profiles # {}

\* A wrongly signed token was refused
C21_WitnessForged ==
    /\ ret.op \in TokenRouteOps
    /\ ret.status = 401
    /\ bearer # NoToken
    /\ issued = EmptyDict

---------------------------------------------------------------------------
(* middlewares.combined_logger_and_limiter around the routes *)

\* r.get(key): None for a key the server does not hold
r_get(r, key) == r.data[key]

\* pipe.incr(key, 1); pipe.expire(key, WINDOW); pipe.execute()
pipe_execute(r, key) ==
    [r EXCEPT !.data[key] = [value |-> @.value + 1, ttl |-> WINDOW]]

\* A limiter that lets RATE_LIMIT + 1 requests pass
OverLimitAbove(current) == current # NoKey /\ current.value > RATE_LIMIT

\* if current: if int(current) >= RATE_LIMIT
OverLimit(current) == current # NoKey /\ current.value >= RATE_LIMIT

\* A limiter whose 429 also renews the key's expiry
combined_logger_and_limiter_renewing(r, ip, path) ==
    IF path \notin ThrottledPaths \/ ~r.connected
    THEN [status |-> 200, r |-> r]
    ELSE IF OverLimit(r_get(r, RateKey(ip, path)))
    THEN [status |-> 429,
          r |-> [r EXCEPT !.data[RateKey(ip, path)].ttl = WINDOW]]
    ELSE [status |-> 200, r |-> pipe_execute(r, RateKey(ip, path))]

\* The middleware up to call_next, without another request in between:
\* [status, r]; 200 stands for the call of call_next
combined_logger_and_limiter(r, ip, path) ==
    IF path \notin ThrottledPaths \/ ~r.connected
    THEN [status |-> 200, r |-> r]
    ELSE IF OverLimit(r_get(r, RateKey(ip, path)))
    THEN [status |-> 429, r |-> r]
    ELSE [status |-> 200, r |-> pipe_execute(r, RateKey(ip, path))]

\* The Redis server after d seconds: a key lives while its ttl has not run out
Expire(data, d) ==
    [k \in DOMAIN data |->
        IF data[k].ttl - d < 0 THEN NoKey
        ELSE [data[k] EXCEPT !.ttl = @ - d]]

\* The ages below WINDOW after d more seconds
Aged(ages, d) == SelectSeq([i \in 1..Len(ages) |-> ages[i] + d],
                           LAMBDA a : a < WINDOW)

\* The log of the requests passed on, after the middleware answered
Passed(log, ip, path, status) ==
    IF status = 200 /\ path \in ThrottledPaths
    THEN [log EXCEPT ![RateKey(ip, path)] = <<0>> \o @]
    ELSE log

\* Seconds between requests: 60 is the last second of a key, 62 is past it
LimiterSteps == {31, 60}

\* d seconds pass
Elapse(d) ==
    /\ redis' = [redis EXCEPT !.data = Expire(@, d)]
    /\ recent' = [k \in DOMAIN recent |-> Aged(recent[k], d)]
    /\ ret' = Reply("elapse", "", 200, NoUser)
    /\ UNCHANGED <<now, session, cookie_time, csrf_seq, given, touched, bearer,
                   issued, users, profiles, oauth, pending, waiting, racing,
                   history>>

\* The middleware's part of a request that no other request interleaves with
Limit(ip, path) ==
    LET m == combined_logger_and_limiter(redis, ip, path)
    IN  /\ waiting = {}
        /\ redis' = m.r
        /\ recent' = Passed(recent, ip, path, m.status)
        /\ UNCHANGED waiting

\* The JSONResponse of the middleware
TooManyRequests(op, ip, path) ==
    /\ Respond(Current, Reply(op, <<ip, path>>, 429, NoUser))
    /\ UNCHANGED <<csrf_seq, given, touched, bearer, issued, users, profiles,
                   oauth, pending, racing, history>>

\* POST /signup from ip
PostSignup(ip, user) ==
    /\ Limit(ip, "/signup")
    /\ IF combined_logger_and_limiter(redis, ip, "/signup").status = 429
       THEN TooManyRequests("signup", ip, "/signup")
       ELSE LET r == signup(users, user)
            IN  /\ users' = r.table
                /\ Respond(Current, Reply("signup", <<ip, "/signup">>, r.status,
                                          [user_id |-> r.user_id]))
                /\ signed_up' = IF r.status # 200 THEN signed_up
                                ELSE signed_up \cup
                                     {[username |-> user.username,
                                       password |-> user.password,
                                       role |-> user.role,
                                       user_id |-> r.user_id]}
                /\ UNCHANGED <<csrf_seq, given, touched, bearer, issued, profiles,
                               oauth, pending, racing, logged_out>>

\* POST /login from ip
PostLogin(ip, login_data) ==
    /\ Limit(ip, "/login")
    /\ IF combined_logger_and_limiter(redis, ip, "/login").status = 429
       THEN TooManyRequests("login", ip, "/login")
       ELSE LET c == check_credentials(users, login_data)
            IN  /\ IF c.status # 200
                   THEN /\ Respond(Current, Reply("login", <<ip, "/login">>,
                                                  c.status, NoUser))
                        /\ UNCHANGED <<csrf_seq, given, touched, logged_out>>
                   ELSE /\ csrf_seq < MaxSessions
                        /\ Respond(create_user_session(
                                       Current, login_session_data(c.user), now,
                                       csrf_seq),
                                   Reply("login", <<ip, "/login">>, 200,
                                         [username |-> c.user.username,
                                          role |-> c.user.role]))
                        /\ csrf_seq' = csrf_seq + 1
                        /\ given' = login_session_data(c.user)
                        /\ touched' = FALSE
                        /\ logged_out' = FALSE
                /\ UNCHANGED <<bearer, issued, users, profiles, oauth, pending,
                               racing, signed_up>>

\* GET /dashboard from ip: a path the middleware only logs
GetDashboardFrom(ip) ==
    /\ Limit(ip, "/dashboard")
    /\ LET r == get_current_user_session(Request(Current, bearer), now)
       IN  Respond(r.session, Reply("dashboard", <<ip, "/dashboard">>, r.status,
                                    r.out))
    /\ UNCHANGED <<csrf_seq, given, touched, bearer, issued, users, profiles,
                   oauth, pending, racing, history>>

\* The address that also signs up
SignupIPs == {"10.0.0.1"}

LimiterSignups == {[username |-> "alice", password |-> "pw1", role |-> "user"]}
LimiterLogins == {[username |-> "alice", password |-> "pw2"]}

\* Requests from two addresses, one after the other
NextLimiter ==
    \/ \E ip \in SignupIPs, user \in LimiterSignups : PostSignup(ip, user)
    \/ \E ip \in IPs, login_data \in LimiterLogins : PostLogin(ip, login_data)
    \/ \E ip \in SignupIPs : GetDashboardFrom(ip)
    \/ \E d \in LimiterSteps : Elapse(d)

\* The app with r connected to a Redis server
InitLimiter ==
    /\ now = 0
    /\ session = EmptyDict
    /\ cookie_time = NoneInt
    /\ csrf_seq = 0
    /\ ret = Reply("start", "", 200, NoUser)
    /\ given = EmptyDict
    /\ touched = FALSE
    /\ bearer = NoToken
    /\ issued = EmptyDict
    /\ users = {}
    /\ profiles = {}
    /\ signed_up = {}
    /\ logged_out = FALSE
    /\ pending = {}
    /\ oauth = FALSE
    /\ redis = EmptyRedis
    /\ recent = NoRecent
    /\ waiting = {}
    /\ racing = {}

SpecLimiter == InitLimiter /\ [][NextLimiter]_vars

\* No key has passed more than RATE_LIMIT requests in the last WINDOW seconds
WithinRateLimit == \A k \in RateKeys : Len(recent[k]) <= RATE_LIMIT

LimitedOps == {"signup", "login", "dashboard"}

\* The key of the request that was just answered, for a throttled path
AnsweredKey == RateKey(ret.arg[1], ret.arg[2])

\* What a request does to the counters: one on an unthrottled path is never
\* rejected and touches no counter; one on a throttled path is rejected when
\* its own key holds RATE_LIMIT or more, and then reaches no handler and
\* leaves every counter alone, and is passed on otherwise, counting on its
\* own key only
LimiterStep ==
    ret'.op \in LimitedOps
      =>    LET ip == ret'.arg[1]
                path == ret'.arg[2]
                key == RateKey(ip, path)
            IN  IF path \notin ThrottledPaths
                THEN ret'.status # 429 /\ redis' = redis
                ELSE /\ \A k \in RateKeys \ {key} :
                            redis'.data[k] = redis.data[k]
                     /\ IF redis.data[key].value >= RATE_LIMIT
                        THEN /\ ret'.status = 429
                             /\ redis' = redis
                             /\ recent' = recent
                             /\ users' = users
                             /\ session' = session
                        ELSE /\ ret'.status # 429
                             /\ redis'.data[key] =
                                    [value |-> redis.data[key].value + 1,
                                     ttl |-> WINDOW]

---------------------------------------------------------------------------
(* The limiter in several worker processes on one Redis server.  Inside a  *)
(* process the middleware does not await between r.get and pipe.execute,   *)
(* so a worker has one request there at a time; the workers interleave.    *)

MaxWorkers == 2
Workers == 1..MaxWorkers

RaceIPs == {"10.0.0.1"}

\* current = r.get(key), and the 429 when it is at the limit
ReadCounter(worker, ip, path, login_data) ==
    LET current == r_get(redis, RateKey(ip, path))
    IN  /\ \A q \in waiting : q.worker # worker
        /\ IF OverLimit(current)
           THEN /\ Respond(Current, Reply("login", <<ip, path>>, 429, NoUser))
                /\ UNCHANGED waiting
           ELSE /\ waiting' = waiting \cup {[worker |-> worker, ip |-> ip,
                                             path |-> path, current |-> current,
                                             login_data |-> login_data]}
                /\ Respond(Current, Reply("r_get", <<ip, path>>, 200, NoUser))
        /\ UNCHANGED <<csrf_seq, given, touched, bearer, issued, users, profiles,
                       oauth, pending, redis, recent, racing, history>>

\* pipe.execute() and call_next: POST /login with a wrong password
CountAndPassOn(q) ==
    /\ q \in waiting
    /\ waiting' = waiting \ {q}
    /\ redis' = pipe_execute(redis, RateKey(q.ip, q.path))
    /\ recent' = Passed(recent, q.ip, q.path, 200)
    /\ LET c == check_credentials(users, q.login_data)
       IN  Respond(Current, Reply("login", <<q.ip, q.path>>, c.status, NoUser))
    /\ UNCHANGED <<csrf_seq, given, touched, bearer, issued, users, profiles,
                   oauth, pending, racing, history>>

NextLimiterRace ==
    \/ \E worker \in Workers, ip \in RaceIPs, login_data \in LimiterLogins :
           ReadCounter(worker, ip, "/login", login_data)
    \/ \E q \in waiting : CountAndPassOn(q)
    \/ \E d \in LimiterSteps : Elapse(d)

SpecLimiterRace == InitLimiter /\ [][NextLimiterRace]_vars

\* C23: under any interleaving of requests from one IP to one throttled path,
\* no more than RATE_LIMIT = 5 requests are passed on while the key lives:
\* the counter never exceeds 5 and no 60 seconds see more than 5 passed on.
C23_RateLimitUnderRace ==
    \A k \in RateKeys :
        /\ redis.data[k].value <= RATE_LIMIT
        /\ Len(recent[k]) <= RATE_LIMIT

\* What holds under the race: a request is passed on only if the counter it
\* read was below the limit, so at most one request per worker goes over
C23_OverByWorkers ==
    \A k \in RateKeys :
        /\ redis.data[k].value <= RATE_LIMIT + MaxWorkers - 1
        /\ Len(recent[k]) <= RATE_LIMIT + MaxWorkers - 1

---------------------------------------------------------------------------
(* One address that keeps sending: time passes, and the client sends again *)

NextLimiterLive ==
    \/ \E ip \in RaceIPs, login_data \in LimiterLogins : PostLogin(ip, login_data)
    \/ \E ip \in RaceIPs, user \in LimiterSignups : PostSignup(ip, user)
    \/ \E d \in LimiterSteps : Elapse(d)

SpecLimiterLive ==
    /\ InitLimiter
    /\ [][NextLimiterLive]_vars
    /\ WF_vars(\E d \in LimiterSteps : Elapse(d))
    /\ WF_vars(\E ip \in RaceIPs, login_data \in LimiterLogins :
                   PostLogin(ip, login_data))

\* The last request was a POST /login from the address, answered with 429
LoginThrottled ==
    ret.op = "login" /\ ret.arg = <<"10.0.0.1", "/login">> /\ ret.status = 429

\* The last request was a POST /login from the address, passed to the handler
LoginPassedOn ==
    ret.op = "login" /\ ret.arg = <<"10.0.0.1", "/login">> /\ ret.status # 429

\* C24: a throttled client is admitted again: a 429 neither counts nor renews
\* the key's expiry, so the key runs out after the last request passed on and
\* a later request is passed to the handler, however many requests the client
\* sent while throttled.
C24_EventuallyAdmitted ==
    /\ LoginThrottled ~> LoginPassedOn
    /\ [][(ret'.op \in LimitedOps /\ ret'.status = 429) => redis' = redis]_vars

\* The client was still answered 429 at the last second of the key: the
\* rejections in between renewed nothing
C24_Witness ==
    /\ LoginThrottled
    /\ redis.data[RateKey("10.0.0.1", "/login")].value = RATE_LIMIT
    /\ redis.data[RateKey("10.0.0.1", "/login")].ttl = 0

---------------------------------------------------------------------------
(* Signups and OAuth callbacks for one username, each in two steps: the    *)
(* query for an existing user, then db.add and db.commit.                  *)

MaxClients == 2
Clients == 1..MaxClients

RaceSignups == {[username |-> "bob@x.io", password |-> "pw1", role |-> "user"]}
RaceUserInfos == {[email |-> "bob@x.io", name |-> "Bob", sub |-> "g-1"]}

\* What the steps below leave alone
race_frame == <<bearer, issued, profiles, oauth, pending, limiter>>

\* signup up to `if existing`
QuerySignup(client, user) ==
    /\ \A q \in racing : q.client # client
    /\ IF query_user(users, user.username) # NoRow
       THEN /\ Respond(Current, Reply("signup", client, 400,
                                      [user_id |-> NoneInt]))
            /\ UNCHANGED racing
       ELSE /\ racing' = racing \cup {[client |-> client, route |-> "signup",
                                       user |-> user, session |-> EmptyDict]}
            /\ Respond(Current, Reply("query_user", client, 200, NoUser))
    /\ UNCHANGED <<csrf_seq, given, touched, users, history, race_frame>>

\* signup from db.add on: the IntegrityError of db.commit is not caught
CommitSignup(q) ==
    /\ q \in racing
    /\ q.route = "signup"
    /\ LET new_user == [id |-> NextId(users), username |-> q.user.username,
                        hashed_password |-> hash_password(q.user.password),
                        role |-> q.user.role]
           done == insert_user(users, new_user)
       IN  /\ Cardinality(users) < MaxUsers \/ ~done.ok
           /\ users' = done.table
           /\ Respond(Current,
                      Reply("signup", q.client, IF done.ok THEN 200 ELSE 500,
                            [user_id |-> IF done.ok THEN new_user.id
                                         ELSE NoneInt]))
           /\ signed_up' = IF ~done.ok THEN signed_up
                           ELSE signed_up \cup
                                {[username |-> q.user.username,
                                  password |-> q.user.password,
                                  role |-> q.user.role, user_id |-> new_user.id]}
    /\ racing' = racing \ {q}
    /\ UNCHANGED <<csrf_seq, given, touched, logged_out, race_frame>>

\* auth_callback with a token and an email, up to `if not existing_user`; with
\* a user found it goes on to the session
QueryCallback(client, user_info) ==
    /\ \A q \in racing : q.client # client
    /\ oauth
    /\ StateKey \in DOMAIN Current
    /\ "email" \in DOMAIN user_info
    /\ LET found == query_user(users, user_info["email"])
           s == Without(Current, StateKey)
       IN  IF found # NoRow
           THEN /\ csrf_seq < MaxSessions
                /\ Respond(create_user_session(
                               s, callback_session_data(found, user_info), now,
                               csrf_seq),
                           Reply("auth_callback", client, 302, NoUser))
                /\ csrf_seq' = csrf_seq + 1
                /\ given' = callback_session_data(found, user_info)
                /\ touched' = FALSE
                /\ logged_out' = FALSE
                /\ UNCHANGED racing
           ELSE /\ racing' = racing \cup {[client |-> client,
                                           route |-> "callback",
                                           user |-> user_info, session |-> s]}
                /\ Respond(Current, Reply("query_user", client, 200, NoUser))
                /\ UNCHANGED <<csrf_seq, given, touched, logged_out>>
    /\ UNCHANGED <<users, signed_up, race_frame>>

\* auth_callback from db.add on: `except Exception` turns the IntegrityError
\* of db.commit into the 400 page
CommitCallback(q) ==
    /\ q \in racing
    /\ q.route = "callback"
    /\ LET new_user == [id |-> NextId(users), username |-> q.user["email"],
                        hashed_password |-> EmptyHash, role |-> "user"]
           done == insert_user(users, new_user)
       IN  /\ users' = done.table
           /\ IF done.ok
              THEN /\ Cardinality(users) < MaxUsers
                   /\ csrf_seq < MaxSessions
                   /\ Respond(create_user_session(
                                  q.session,
                                  callback_session_data(new_user, q.user), now,
                                  csrf_seq),
                              Reply("auth_callback", q.client, 302, NoUser))
                   /\ csrf_seq' = csrf_seq + 1
                   /\ given' = callback_session_data(new_user, q.user)
                   /\ touched' = FALSE
                   /\ logged_out' = FALSE
              ELSE /\ Respond(q.session,
                              Reply("auth_callback", q.client, 400, NoUser))
                   /\ UNCHANGED <<csrf_seq, given, touched, logged_out>>
    /\ racing' = racing \ {q}
    /\ UNCHANGED <<signed_up, race_frame>>

NextSignupRace ==
    \/ \E client \in Clients, user \in RaceSignups : QuerySignup(client, user)
    \/ \E q \in racing : CommitSignup(q)
    \/ LoginViaGoogle(TRUE)
    \/ \E client \in Clients, user_info \in RaceUserInfos :
           QueryCallback(client, user_info)
    \/ \E q \in racing : CommitCallback(q)
    \/ Logout

SpecSignupRace == InitOAuth /\ [][NextSignupRace]_vars

CreateOps == {"signup", "auth_callback"}

\* C25: under any interleaving of signups and OAuth callbacks for one
\* username at most one row with the username exists, the request that
\* creates it reports success, and every other request is answered with the
\* Conflict outcome (400), never with an unhandled error.
C25_OneWinnerOthersConflict ==
    /\ []UniqueUsernames
    /\ [][ret'.op \in CreateOps
            => \/ ret'.status \in {200, 302}
               \/ ret'.status = 400 /\ users' = users]_vars

\* What holds under the race: one row per username, and a request that loses
\* creates nothing and gets no session: the signup ends with the unhandled
\* error (500), the callback with its 400 page
C25_LoserCreatesNothing ==
    /\ []UniqueUsernames
    /\ [][ret'.op \in CreateOps
            => \/ ret'.status \in {200, 302}
               \/ /\ ret'.status \in {400, 500}
                  /\ users' = users
                  /\ ~IsAuthenticated(session') \/ session' = session]_vars

\* A signup lost the race
C25_WitnessSignupLost == ret.op = "signup" /\ ret.status = 500

\* A callback lost the race
C25_WitnessCallbackLost ==
    ret.op = "auth_callback" /\ ret.status = 400 /\ users # {}

====
